---------------------------- MODULE Spec2Model ----------------------------
(***************************************************************************)
(* A state-machine model of main.py, the DingTalk news bot: the            *)
(* module-level secret check, fetch_news (one GET per keyword, the         *)
(* per-article filter chain, the 2-day selection, shuffle and slice),      *)
(* send_to_dingtalk and sign_url.                                          *)
(*                                                                         *)
(* Time is in whole seconds since an arbitrary epoch.  A Python string     *)
(* whose characters matter (urlToImage) is a sequence of one-character     *)
(* strings; Python's None is the string NONE where the field is a plain    *)
(* string, and a record with isstr = FALSE for urlToImage.                 *)
(*                                                                         *)
(* The environment: each GET is answered with a status and, when the       *)
(* status is 200, a JSON body whose "articles" is a list of objects.  The  *)
(* list is not materialised: an article is drawn when the loop reaches it. *)
(***************************************************************************)
EXTENDS Integers, Sequences, FiniteSets

VARIABLES
    NEWSAPI_KEY,        \* os.getenv("NEWSAPI_KEY")
    DINGTALK_WEBHOOK,   \* os.getenv("DINGTALK_WEBHOOK")
    DINGTALK_SECRET,    \* os.getenv("DINGTALK_SECRET")
    feed,               \* which family of article records the news API serves
    pc,                 \* position of the single control flow
    now,                \* the UTC clock, in seconds
    k,                  \* index into KEYWORDS of the for loop of fetch_news
    remaining,          \* articles of the current response not yet iterated
    branch,             \* the way the last iteration over an article left the loop body
    seen_links,         \* fetch_news: seen_links
    all_news,           \* fetch_news: all_news
    selected_news,      \* fetch_news: selected_news
    news,               \* __main__: news
    webhook_url,        \* send_to_dingtalk: webhook_url
    gets,               \* log of the GET requests issued, with the status answered
    posts               \* log of the POST requests issued

vars == <<NEWSAPI_KEY, DINGTALK_WEBHOOK, DINGTALK_SECRET, feed, pc, now,
          k, remaining, branch, seen_links, all_news, selected_news, news,
          webhook_url, gets, posts>>

-----------------------------------------------------------------------------
(* Bounds of the model *)

MaxArticles == 5
MaxTicks == 1

(* Program constants *)

DAYS_FILTER == 360
NEWS_LIMIT == 3
RECENT_DAYS == 2
SecondsPerDay == 86400

NONE == "<None>"

\* line 29
KEYWORDS == <<"sewing thread">>

Now0 == 400 * SecondsPerDay

-----------------------------------------------------------------------------
(* Strings as character sequences *)

WEBP == <<"w", "e", "b", "p">>

\* the characters of the model are the ASCII ones and the whitespace named below
UpperLetters ==
    <<"A", "B", "C", "D", "E", "F", "G", "H", "I", "J", "K", "L", "M",
      "N", "O", "P", "Q", "R", "S", "T", "U", "V", "W", "X", "Y", "Z">>

LowerLetters ==
    <<"a", "b", "c", "d", "e", "f", "g", "h", "i", "j", "k", "l", "m",
      "n", "o", "p", "q", "r", "s", "t", "u", "v", "w", "x", "y", "z">>

\* str.lower() on one character
LowerChar(c) ==
    IF \E i \in 1..26 : UpperLetters[i] = c
    THEN LowerLetters[CHOOSE i \in 1..26 : UpperLetters[i] = c]
    ELSE c

\* variant: the case is not folded
LowerKeepsCase(s) == s

\* str.lower()
Lower(s) == [i \in 1..Len(s) |-> LowerChar(s[i])]

\* the characters str.strip() removes (str.isspace); those with no escape in
\* a string are written by their code point
Whitespace ==
    {" ", "\t", "\n", "\r", "\f", "U+000B", "U+001C", "U+001D", "U+001E", "U+001F",
     "U+0085", "U+00A0", "U+1680", "U+2000", "U+2001", "U+2002", "U+2003", "U+2004",
     "U+2005", "U+2006", "U+2007", "U+2008", "U+2009", "U+200A", "U+2028", "U+2029",
     "U+202F", "U+205F", "U+3000"}

IsSpace(c) == c \in Whitespace

RECURSIVE LStrip(_)
LStrip(s) == IF s # <<>> /\ IsSpace(Head(s)) THEN LStrip(Tail(s)) ELSE s

RECURSIVE RStrip(_)
RStrip(s) ==
    IF s # <<>> /\ IsSpace(s[Len(s)]) THEN RStrip(SubSeq(s, 1, Len(s) - 1)) ELSE s

\* str.strip()
Strip(s) == RStrip(LStrip(s))

\* sub in s
Contains(s, sub) ==
    \E i \in 1..(Len(s) - Len(sub) + 1) : SubSeq(s, i, i + Len(sub) - 1) = sub

\* truth value of an Optional[str] held as a plain string
Truthy(v) == v # NONE /\ v # ""

\* urllib.parse.quote(keyword)
Quote(keyword) ==
    IF keyword = "sewing thread" THEN "sewing%20thread" ELSE keyword

-----------------------------------------------------------------------------
(* Timestamps.  A publishedAt value is None, or a string described by its   *)
(* layout and the instant it denotes:                                       *)
(*   "Z"       2024-05-01T10:20:30Z       the layout strptime is given      *)
(*   "frac"    2024-05-01T10:20:30.123Z   fractional seconds                *)
(*   "offset"  2024-05-01T10:20:30+00:00  numeric offset                    *)
(*   "empty"   the empty string                                             *)

Stamp(form, t) == [form |-> form, t |-> t]

\* not published_at
StampFalsy(p) == p.form \in {"None", "empty"}

\* datetime.strptime(published_at, "%Y-%m-%dT%H:%M:%SZ") does not raise
StrptimeOk(p) == p.form = "Z"

\* the datetime strptime returns
Strptime(p) == p.t

\* published.strftime("%Y-%m-%d %H:%M"): the seconds are dropped
Strftime(t) == [minute |-> t \div 60]

\* timedelta(days=d)
Timedelta(d) == d * SecondsPerDay

-----------------------------------------------------------------------------
(* The article records the news API may serve *)

Img(s) == [isstr |-> TRUE, s |-> s]

\* JSON null (or any non-string) in urlToImage
NoImg == [isstr |-> FALSE, s |-> <<>>]

Article(p, u, img, title) ==
    [publishedAt |-> p, url |-> u, urlToImage |-> img, title |-> title,
     description |-> NONE, source |-> "Fibre2Fashion"]

\* instants, relative to the clock at start-up
TooOld == Now0 - Timedelta(DAYS_FILTER) - 1
EdgeOld == Now0 - Timedelta(DAYS_FILTER)
TenDays == Now0 - Timedelta(10)
EdgeRecent == Now0 - Timedelta(RECENT_DAYS)
Fresh == Now0 - 3593
Future == Now0 + 90

FilterStamps ==
    {Stamp("None", 0), Stamp("empty", 0), Stamp("frac", Fresh), Stamp("offset", Fresh),
     Stamp("Z", TooOld), Stamp("Z", EdgeOld), Stamp("Z", TenDays),
     Stamp("Z", EdgeRecent), Stamp("Z", Fresh), Stamp("Z", Future)}

FilterImages ==
    {NoImg, Img(<<" ", "\t">>), Img(<<"\t", "a", "\n">>), Img(<<"W", "E", "B", "P">>),
     Img(<<"U+00A0", "X", "W", "e", "B", "p", " ">>), Img(<<"w", "e", "b">>)}

\* feed "filter": every timestamp shape and image shape, few urls
FilterArticles ==
    {Article(p, u, img, t) :
        p \in FilterStamps, u \in {NONE, "", "u1"}, img \in FilterImages,
        t \in {"t1", "t2"}}

\* feed "dedup": many urls, so that duplicates and more than NEWS_LIMIT
\* candidates occur
DedupArticles ==
    {Article(p, u, img, "t1") :
        p \in {Stamp("Z", TenDays), Stamp("Z", Fresh)},
        u \in {"u1", "u2", "u3", "u4"},
        img \in {NoImg, Img(<<"x", ".", "w", "e", "b", "p">>)}}

\* feed "window": two urls at and around the edge of the 2-day window
WindowArticles ==
    {Article(p, u, NoImg, "t1") :
        p \in {Stamp("Z", TenDays), Stamp("Z", EdgeRecent), Stamp("Z", Fresh)},
        u \in {"u1", "u2"}}

Articles(f) ==
    CASE f = "filter" -> FilterArticles
      [] f = "dedup" -> DedupArticles
      [] OTHER -> WindowArticles

Feeds == {"filter", "dedup", "window"}

Secrets == {NONE, "", "set"}

Statuses == {200, 201, 404, 500}

-----------------------------------------------------------------------------
(* Module level: lines 21-26 *)

\* variant: any() in place of all()
AnySecret(key, webhook, secret) ==
    Truthy(key) \/ Truthy(webhook) \/ Truthy(secret)

\* all([NEWSAPI_KEY, DINGTALK_WEBHOOK, DINGTALK_SECRET])
AllSecrets(key, webhook, secret) ==
    Truthy(key) /\ Truthy(webhook) /\ Truthy(secret)

Init ==
    /\ NEWSAPI_KEY \in Secrets
    /\ DINGTALK_WEBHOOK \in Secrets
    /\ DINGTALK_SECRET \in Secrets
    /\ feed \in Feeds
    /\ pc = "config"
    /\ now = Now0
    /\ k = 1
    /\ remaining = 0
    /\ branch = "none"
    /\ seen_links = {}
    /\ all_news = <<>>
    /\ selected_news = <<>>
    /\ news = <<>>
    /\ webhook_url = <<>>
    /\ gets = <<>>
    /\ posts = <<>>

\* the check of the three secrets; raise ValueError when one is not set
LoadConfig ==
    /\ pc = "config"
    /\ pc' = IF AllSecrets(NEWSAPI_KEY, DINGTALK_WEBHOOK, DINGTALK_SECRET)
             THEN "get" ELSE "aborted"
    /\ UNCHANGED <<NEWSAPI_KEY, DINGTALK_WEBHOOK, DINGTALK_SECRET, feed,
                   now, k, remaining, branch, seen_links, all_news,
                   selected_news, news, webhook_url, gets, posts>>

\* the clock advances before it is read again (lines 73, 103 and 35)
Tick ==
    /\ pc \in {"get", "articles", "select", "sign"}
    /\ now < Now0 + MaxTicks
    /\ now' = now + 1
    /\ UNCHANGED <<NEWSAPI_KEY, DINGTALK_WEBHOOK, DINGTALK_SECRET, feed,
                   pc, k, remaining, branch, seen_links, all_news,
                   selected_news, news, webhook_url, gets, posts>>

-----------------------------------------------------------------------------
(* fetch_news: lines 43-110 *)

\* variant: only server errors count as a failed fetch
StatusServerError(status) == status >= 500

\* response.status_code != 200
StatusFailed(status) == status # 200

\* variant: the same keyword is taken again
AdvanceStuck(i) == i

\* line 47: the for loop takes the next keyword
Advance(i) == i + 1

\* line 47: the loop body runs for keyword number i if there is one, else the
\* loop is left for line 103
AfterKeyword(i) == IF i <= Len(KEYWORDS) THEN "get" ELSE "select"

\* lines 47-62: one GET for KEYWORDS[k]
Get ==
    /\ pc = "get"
    /\ k <= Len(KEYWORDS)
    /\ \E status \in Statuses, n \in 0..MaxArticles :
          /\ gets' = Append(gets, [q |-> Quote(KEYWORDS[k]), apiKey |-> NEWSAPI_KEY,
                                   pageSize |-> 50, sortBy |-> "publishedAt",
                                   status |-> status])
          /\ IF StatusFailed(status)
             THEN /\ pc' = AfterKeyword(Advance(k))
                  /\ k' = Advance(k)
                  /\ remaining' = 0
             ELSE IF n = 0
             THEN /\ pc' = AfterKeyword(Advance(k))
                  /\ k' = Advance(k)
                  /\ remaining' = 0
             ELSE /\ pc' = "articles"
                  /\ k' = k
                  /\ remaining' = n
    /\ UNCHANGED <<NEWSAPI_KEY, DINGTALK_WEBHOOK, DINGTALK_SECRET, feed,
                   now, branch, seen_links, all_news, selected_news, news,
                   webhook_url, posts>>

\* variant: the window is one day too long
TooOldAtOffByOneDay(published, t) == published < t - Timedelta(DAYS_FILTER + 1)

\* line 73: published < datetime.utcnow() - timedelta(days=DAYS_FILTER)
TooOldAt(published, t) == published < t - Timedelta(DAYS_FILTER)

\* variant: the seen set is not consulted
NoUrl(url_link, seen) == ~Truthy(url_link)

\* line 77: not url_link or url_link in seen_links
NoUrlOrSeen(url_link, seen) == ~Truthy(url_link) \/ url_link \in seen

\* line 84: image_url.strip() if isinstance(image_url, str) and image_url.strip() else ""
Image(image_url) ==
    IF image_url.isstr /\ Strip(image_url.s) # <<>> THEN Strip(image_url.s) ELSE <<>>

\* line 87: "webp" in image.lower()
IsWebp(image) == Contains(Lower(image), WEBP)

\* lines 91-100: the dict appended to all_news
Candidate(a, published) ==
    [title |-> a.title,
     description |-> IF Truthy(a.description) THEN a.description ELSE "",
     url |-> a.url,
     image |-> Image(a.urlToImage),
     published |-> Strftime(published),
     published_dt |-> published,
     source |-> a.source,
     region |-> ""]

\* lines 65-100: which way one iteration over article a leaves the loop body
Verdict(a, seen, t) ==
    IF StampFalsy(a.publishedAt) THEN "no_timestamp"
    ELSE IF ~StrptimeOk(a.publishedAt) THEN "bad_timestamp"
    ELSE IF TooOldAt(Strptime(a.publishedAt), t) THEN "too_old"
    ELSE IF NoUrlOrSeen(a.url, seen) THEN "no_url_or_seen"
    ELSE IF IsWebp(Image(a.urlToImage)) THEN "webp"
    ELSE "append"

\* line 80 is reached: seen_links.add(url_link)
MarksSeen(v) == v \in {"webp", "append"}

\* lines 64-100: one iteration of the loop over the articles, on article a
Process(a) ==
    /\ pc = "articles"
    /\ remaining > 0
    /\ LET v == Verdict(a, seen_links, now) IN
          /\ branch' = v
          /\ seen_links' = IF MarksSeen(v) THEN seen_links \cup {a.url} ELSE seen_links
          /\ all_news' = IF v = "append"
                         THEN Append(all_news, Candidate(a, Strptime(a.publishedAt)))
                         ELSE all_news
    /\ remaining' = remaining - 1
    /\ IF remaining = 1
       THEN pc' = AfterKeyword(Advance(k)) /\ k' = Advance(k)
       ELSE pc' = "articles" /\ k' = k
    /\ UNCHANGED <<NEWSAPI_KEY, DINGTALK_WEBHOOK, DINGTALK_SECRET, feed,
                   now, selected_news, news, webhook_url, gets, posts>>

ProcessArticle == \E a \in Articles(feed) : Process(a)

\* variant: 3 days, as the comment at line 97 says
IsRecentThreeDays(n, t) == n.published_dt >= t - Timedelta(3)

\* line 103: n["published_dt"] >= datetime.utcnow() - timedelta(days=2)
IsRecent(n, t) == n.published_dt >= t - Timedelta(RECENT_DAYS)

\* line 103 reads the clock once for each element of the list: the readings
\* of n elements, the first at clock t, none earlier than the one before
ClockReads(n, t) ==
    {r \in [1..n -> t..(Now0 + MaxTicks)] :
        /\ n > 0 => r[1] = t
        /\ \A i \in 1..(n - 1) : r[i] <= r[i + 1]}

RECURSIVE Filter(_, _)
\* line 103: the list comprehension, element i tested at clock reads[i]
Filter(list, reads) ==
    IF list = <<>> THEN <<>>
    ELSE IF IsRecent(Head(list), Head(reads))
         THEN <<Head(list)>> \o Filter(Tail(list), Tail(reads))
         ELSE Filter(Tail(list), Tail(reads))

Perms(n) == {p \in [1..n -> 1..n] : \A i, j \in 1..n : p[i] = p[j] => i = j}

\* line 107: the lists random.shuffle may leave
Shuffles(list) == {[i \in 1..Len(list) |-> list[p[i]]] : p \in Perms(Len(list))}

\* line 108: recent_news[:NEWS_LIMIT]
Slice(list, limit) == SubSeq(list, 1, IF Len(list) < limit THEN Len(list) ELSE limit)

\* lines 103-108
Select ==
    /\ pc = "select"
    /\ \E reads \in ClockReads(Len(all_news), now) :
          /\ \E shuffled \in Shuffles(Filter(all_news, reads)) :
                selected_news' = Slice(shuffled, NEWS_LIMIT)
          /\ now' = IF reads = <<>> THEN now ELSE reads[Len(reads)]
    /\ pc' = "return"
    /\ UNCHANGED <<NEWSAPI_KEY, DINGTALK_WEBHOOK, DINGTALK_SECRET, feed,
                   k, remaining, branch, seen_links, all_news, news,
                   webhook_url, gets, posts>>

\* lines 110 and 147: return selected_news; the locals of fetch_news are gone
Return ==
    /\ pc = "return"
    /\ news' = selected_news
    /\ seen_links' = {}
    /\ all_news' = <<>>
    /\ selected_news' = <<>>
    /\ branch' = "none"
    /\ pc' = "send"
    /\ UNCHANGED <<NEWSAPI_KEY, DINGTALK_WEBHOOK, DINGTALK_SECRET, feed,
                   now, k, remaining, webhook_url, gets, posts>>

-----------------------------------------------------------------------------
(* sign_url: lines 34-40 *)

\* str(round(time.time() * 1000)) at clock t
Timestamp(t) == [seconds |-> t, millis |-> "000"]

\* hmac.new(key, msg, hashlib.sha256).digest(), uninterpreted
HmacSha256(key, msg) == [hmac_sha256_key |-> key, msg |-> msg]

\* urllib.parse.quote_plus(base64.b64encode(digest)), uninterpreted
QuotePlusB64(digest) == [quote_plus_b64 |-> digest]

sign_url(t) ==
    <<DINGTALK_WEBHOOK, "&timestamp=", Timestamp(t), "&sign=",
      QuotePlusB64(HmacSha256(DINGTALK_SECRET, <<Timestamp(t), "\n", DINGTALK_SECRET>>))>>

-----------------------------------------------------------------------------
(* send_to_dingtalk: lines 114-143 *)

\* variant: the empty list is not caught
NeverNothingToSend(list) == FALSE

\* line 115: not news
NothingToSend(list) == list = <<>>

\* lines 121-130: the blocks of markdown_text, in order
Render(list) ==
    [i \in 1..Len(list) |->
        [number |-> i, title |-> list[i].title, url |-> list[i].url,
         source |-> list[i].source, published |-> list[i].published,
         image |-> list[i].image]]

\* lines 152 and 115-138
Send ==
    /\ pc = "send"
    /\ pc' = IF NothingToSend(news) THEN "done" ELSE "sign"
    /\ UNCHANGED <<NEWSAPI_KEY, DINGTALK_WEBHOOK, DINGTALK_SECRET, feed,
                   now, k, remaining, branch, seen_links, all_news, selected_news,
                   news, webhook_url, gets, posts>>

\* line 140
Sign ==
    /\ pc = "sign"
    /\ webhook_url' = sign_url(now)
    /\ pc' = "post"
    /\ UNCHANGED <<NEWSAPI_KEY, DINGTALK_WEBHOOK, DINGTALK_SECRET, feed,
                   now, k, remaining, branch, seen_links, all_news, selected_news,
                   news, gets, posts>>

\* lines 141-143: the POST; its answer is only printed
Post ==
    /\ pc = "post"
    /\ \E status \in Statuses :
          posts' = Append(posts, [url |-> webhook_url, msgtype |-> "markdown",
                                  text |-> Render(news), status |-> status])
    /\ pc' = "done"
    /\ UNCHANGED <<NEWSAPI_KEY, DINGTALK_WEBHOOK, DINGTALK_SECRET, feed,
                   now, k, remaining, branch, seen_links, all_news, selected_news,
                   news, webhook_url, gets>>

-----------------------------------------------------------------------------

Next ==
    \/ LoadConfig
    \/ Tick
    \/ Get
    \/ ProcessArticle
    \/ Select
    \/ Return
    \/ Send
    \/ Sign
    \/ Post

Spec == Init /\ [][Next]_vars

\* the interpreter keeps executing the single control flow until it exits;
\* the runs are those over the feed that takes every way out of the loop body
InitFilterFeed == Init /\ feed = "filter"

FairSpec == InitFilterFeed /\ [][Next]_vars /\ WF_vars(Next)

-----------------------------------------------------------------------------
(* Properties *)

Urls(list) == {list[i].url : i \in 1..Len(list)}

NoDuplicateUrl(list) ==
    \A i, j \in 1..Len(list) : list[i].url = list[j].url => i = j

\* C1: the list fetch_news returns (selected_news, then news in __main__) never
\* holds two entries with the same url and never more than NEWS_LIMIT entries.
C1_DedupAndLimit ==
    /\ NoDuplicateUrl(selected_news) /\ Len(selected_news) <= NEWS_LIMIT
    /\ NoDuplicateUrl(news) /\ Len(news) <= NEWS_LIMIT

\* more than NEWS_LIMIT recent candidates were collected, the last article
\* iterated was a duplicate, and the selection was cut to NEWS_LIMIT
C1_Witness ==
    /\ pc = "return"
    /\ branch = "no_url_or_seen"
    /\ Len(all_news) > NEWS_LIMIT
    /\ Len(selected_news) = NEWS_LIMIT

\* the article's timestamp parses and is inside the DAYS_FILTER window at clock t
InWindow(a, t) ==
    /\ a.publishedAt.form = "Z"
    /\ a.publishedAt.t >= t - DAYS_FILTER * 86400

\* C2: an article with a usable timestamp whose url was already seen is dropped,
\* and an earlier article with that url is in the candidate list (the first
\* encountered is the one retained).
C2_FirstRetained ==
    [][\A a \in Articles(feed) :
          (Process(a) /\ InWindow(a, now) /\ a.url \in seen_links)
              => /\ all_news' = all_news
                 /\ a.url \in Urls(all_news)]_vars

\* the character sequence holds w-e-b-p, each letter in either case
HasWebpAnyCase(img) ==
    /\ img.isstr
    /\ \E i \in 1..(Len(img.s) - 3) :
          /\ img.s[i] \in {"w", "W"}
          /\ img.s[i + 1] \in {"e", "E"}
          /\ img.s[i + 2] \in {"b", "B"}
          /\ img.s[i + 3] \in {"p", "P"}

NoWebpIn(list) ==
    \A i \in 1..Len(list) : ~HasWebpAnyCase([isstr |-> TRUE, s |-> list[i].image])

\* C3: a step of the article loop that adds to all_news is never the
\* iteration of an article whose urlToImage holds "webp" in any letter case
\* (such an article is excluded whatever its other fields), and no candidate,
\* selected entry or returned entry carries such an image.
C3_WebpExcluded ==
    /\ [][(pc = "articles" /\ all_news' # all_news)
            => \A a \in Articles(feed) :
                  HasWebpAnyCase(a.urlToImage) => ~Process(a)]_vars
    /\ [](NoWebpIn(all_news) /\ NoWebpIn(selected_news) /\ NoWebpIn(news))

\* an article with a usable timestamp and a fresh url was dropped for its image
\* while an earlier candidate stays in the list
C3_Witness ==
    /\ branch = "webp"
    /\ all_news # <<>>
    /\ \E u \in seen_links : u \notin Urls(all_news)

\* the fetch loop goes on after an iteration: next article, next keyword or
\* the selection
LoopGoesOn ==
    /\ remaining' = remaining - 1
    /\ pc' \in {"articles", "get", "select"}
    /\ gets' = gets /\ posts' = posts

\* C4: a step of the article loop that changes all_news or seen_links, or
\* after which the loop does not go on, is never the iteration of an article
\* whose publishedAt is absent, does not parse, or parses to an instant older
\* than now - DAYS_FILTER days: such an article is skipped and the loop goes on.
C4_OldOrUnparsedSkipped ==
    [][(pc = "articles" /\ ~(all_news' = all_news /\ seen_links' = seen_links /\ LoopGoesOn))
          => \A a \in Articles(feed) : ~InWindow(a, now) => ~Process(a)]_vars

\* an article was skipped as too old after the clock moved past its edge,
\* with an earlier candidate in the list
C4_Witness ==
    /\ branch = "too_old"
    /\ now > Now0
    /\ all_news # <<>>

\* C5: every selected entry was published no more than 2 days before the
\* clock read when it was tested at line 103 (a reading no earlier than the
\* clock at the start of the selection), so a candidate that passed the
\* DAYS_FILTER window but is older than 2 days is never selected, and the
\* selection is empty when all candidates are.
C5_SelectedWithinTwoDaysWhenTested ==
    [][(pc = "select" /\ pc' = "return")
          => \A i \in 1..Len(selected_news') :
                selected_news'[i].published_dt >= now - 2 * 86400]_vars

\* candidates passed the DAYS_FILTER window, all are older than 2 days, and
\* the selection is empty
C5_Witness ==
    /\ pc = "return"
    /\ all_news # <<>>
    /\ \A i \in 1..Len(all_news) : all_news[i].published_dt < Now0 - 2 * 86400
    /\ selected_news = <<>>

\* C6: at most one POST is issued; it is issued only for a non-empty list, and
\* a finished run has posted exactly when the list was non-empty; with an empty
\* list nothing is signed.
C6_PostIffNonEmpty ==
    /\ Len(posts) <= 1
    /\ posts # <<>> => news # <<>>
    /\ webhook_url # <<>> => news # <<>>
    /\ pc = "done" => (Len(posts) = 1 <=> news # <<>>)

\* the API answered, nothing was selected, and the run finished without a POST
C6_Witness ==
    /\ pc = "done"
    /\ gets # <<>>
    /\ news = <<>>
    /\ posts = <<>>
    /\ webhook_url = <<>>

SecretSet(v) == v \notin {NONE, ""}

\* C7: with one of the three secrets missing or empty the run is still at the
\* check or has aborted, and no GET and no POST was issued.
C7_MissingSecretAborts ==
    ~(SecretSet(NEWSAPI_KEY) /\ SecretSet(DINGTALK_WEBHOOK) /\ SecretSet(DINGTALK_SECRET))
        => /\ pc \in {"config", "aborted"}
           /\ gets = <<>>
           /\ posts = <<>>
           /\ webhook_url = <<>>

\* only the signing secret is empty and the run has aborted
C7_Witness ==
    /\ pc = "aborted"
    /\ SecretSet(NEWSAPI_KEY) /\ SecretSet(DINGTALK_WEBHOOK)
    /\ DINGTALK_SECRET = ""

NonSuccess(status) == status < 200 \/ status > 299

\* C8: a GET answered with a non-success status is not repeated and changes
\* neither all_news nor seen_links; the loop moves to the next keyword (or to
\* the selection after the last one), and the selection is reached only after
\* every keyword was requested.
C8_FailedKeywordSkipped ==
    /\ [][(Len(gets') = Len(gets) + 1 /\ NonSuccess(gets'[Len(gets')].status))
            => /\ all_news' = all_news
               /\ seen_links' = seen_links
               /\ k' = k + 1
               /\ pc' = IF k < Len(KEYWORDS) THEN "get" ELSE "select"]_vars
    /\ [](pc = "select" => Len(gets) = Len(KEYWORDS))

\* the GET was refused and the run went on to its end, with nothing posted
C8_Witness ==
    /\ Len(gets) = 1
    /\ NonSuccess(gets[1].status)
    /\ pc = "done"
    /\ posts = <<>>

Rank(p) ==
    CASE p = "config" -> 0
      [] p \in {"get", "articles"} -> 1
      [] p = "select" -> 2
      [] p = "return" -> 3
      [] p = "send" -> 4
      [] p = "sign" -> 5
      [] p = "post" -> 6
      [] OTHER -> 7

\* the keywords requested so far are the first ones configured, in order
GetsInOrder ==
    /\ Len(gets) <= Len(KEYWORDS)
    /\ \A i \in 1..Len(gets) : gets[i].q = Quote(KEYWORDS[i])

\* C10: the keywords are requested once each in configured order whatever the
\* statuses, the control flow never goes back to an earlier stage, signing and
\* the POST come after every GET, and a run with all secrets set finishes.
C10_LinearPass ==
    /\ [](GetsInOrder)
    /\ [](Rank(pc) >= 2 /\ pc # "aborted" => Len(gets) = Len(KEYWORDS))
    /\ []((webhook_url # <<>> \/ posts # <<>>) => Len(gets) = Len(KEYWORDS))
    /\ [][Rank(pc') >= Rank(pc) /\ Len(gets') >= Len(gets)]_vars
    /\ (SecretSet(NEWSAPI_KEY) /\ SecretSet(DINGTALK_WEBHOOK) /\ SecretSet(DINGTALK_SECRET))
          => <>(pc = "done")

\* the keyword was requested once and the run finished with a POST
C10_Witness ==
    /\ pc = "done"
    /\ Len(gets) = Len(KEYWORDS)
    /\ gets[1].status = 200
    /\ Len(posts) = 1

=====
